---- MODULE Spec2Model ----
(***************************************************************************)
(* A model of homedns: the request handler (server.py dns_response), the   *)
(* per-upstream worker queues (server.py lookup_upstream_worker), the      *)
(* adblock rule lists (adblock.py Adblock) and their loaders (loader.py    *)
(* BaseLoader).  Strings are TLA+ strings; a rule file is a sequence of    *)
(* raw lines.                                                              *)
(***************************************************************************)
EXTENDS Integers, Sequences, FiniteSets, TLC

(***************************************************************************)
(* Bounds of the model.                                                    *)
(***************************************************************************)
\* number of requests the server receives in a run (one handler thread each)
MaxRequests == 2
\* the wall clock runs from 0 to MaxTime
MaxTime == 2

(***************************************************************************)
(* Python string primitives used by Adblock.create and Adblock._inList.    *)
(***************************************************************************)
Char(s, i) == SubSeq(s, i, i)

\* s[i:] with a 1-based i
From(s, i) == SubSeq(s, i, Len(s))

\* str.startswith
StartsWith(s, p) == Len(s) >= Len(p) /\ SubSeq(s, 1, Len(p)) = p

\* p in s
Contains(s, p) == \E i \in 1..(Len(s) - Len(p) + 1) : SubSeq(s, i, i + Len(p) - 1) = p

\* the positions where p occurs in s
Occurrences(s, p) == {i \in 1..(Len(s) - Len(p) + 1) : SubSeq(s, i, i + Len(p) - 1) = p}

MinOf(S) == CHOOSE x \in S : \A y \in S : x <= y

MaxOf(S) == CHOOSE x \in S : \A y \in S : x >= y

\* str.partition(p)[0]
PartitionHead(s, p) ==
    IF Occurrences(s, p) = {} THEN s ELSE SubSeq(s, 1, MinOf(Occurrences(s, p)) - 1)

\* str.partition(p)[2]
PartitionTail(s, p) ==
    IF Occurrences(s, p) = {} THEN "" ELSE From(s, MinOf(Occurrences(s, p)) + Len(p))

\* str.rpartition(p)[2]
RPartitionTail(s, p) ==
    IF Occurrences(s, p) = {} THEN s ELSE From(s, MaxOf(Occurrences(s, p)) + Len(p))

\* str.lstrip(chars): drops every leading character that is in chars
RECURSIVE LStrip(_, _)
LStrip(s, chars) ==
    IF Len(s) > 0 /\ Char(s, 1) \in chars THEN LStrip(From(s, 2), chars) ELSE s

\* str.rstrip(chars)
RECURSIVE RStrip(_, _)
RStrip(s, chars) ==
    IF Len(s) > 0 /\ Char(s, Len(s)) \in chars
    THEN RStrip(SubSeq(s, 1, Len(s) - 1), chars)
    ELSE s

Whitespace == {" "}

\* str.strip()
Strip(s) == RStrip(LStrip(s, Whitespace), Whitespace)

Digits == {"0", "1", "2", "3", "4", "5", "6", "7", "8", "9"}

\* str.isdigit
IsDigit(s) == Len(s) > 0 /\ \A i \in 1..Len(s) : Char(s, i) \in Digits

UpperChars == "ABCDEFGHIJKLMNOPQRSTUVWXYZ"

LowerChars == "abcdefghijklmnopqrstuvwxyz"

LowerChar(c) ==
    IF \E i \in 1..Len(UpperChars) : Char(UpperChars, i) = c
    THEN Char(LowerChars, CHOOSE i \in 1..Len(UpperChars) : Char(UpperChars, i) = c)
    ELSE c

\* str.lower
RECURSIVE Lower(_)
Lower(s) == IF Len(s) = 0 THEN "" ELSE LowerChar(Char(s, 1)) \o Lower(From(s, 2))

(***************************************************************************)
(* Adblock.create, one line at a time, and Adblock._inList.                *)
(***************************************************************************)
\* the line after strip(), the '@@' prefix, the scheme and the path are removed
CleanLine(raw) ==
    LET l0 == Strip(raw)
        l1 == IF StartsWith(l0, "@@") THEN LStrip(l0, {"@"}) ELSE l0
        l2 == RPartitionTail(l1, "://")
    IN  PartitionHead(l2, "/")

\* the lines create() skips: empty, comments, IP addresses, names without a dot
SkipLine(raw) ==
    \/ Strip(raw) = ""
    \/ StartsWith(Strip(raw), "!")
    \/ StartsWith(Strip(raw), "[")
    \/ IsDigit(RPartitionTail(CleanLine(raw), "."))
    \/ ~Contains(CleanLine(raw), ".")

\* the list a line goes to
IsWhiteLine(raw) == StartsWith(Strip(raw), "@@")

\* the domain create() adds for a line it does not skip
LineDomain(raw) ==
    LET l3 == CleanLine(raw)
        l4 == IF Contains(PartitionHead(l3, "*"), ".")
              THEN PartitionHead(l3, "*")
              ELSE PartitionTail(l3, "*")
        l5 == LStrip(LStrip(l4, {"|"}), {"."})
    IN  Lower(l5)

\* host[-n:]
NegSlice(host, n) ==
    IF n = 0 \/ n >= Len(host) THEN host ELSE SubSeq(host, Len(host) - n + 1, Len(host))

\* Adblock._inList
InList(domain_list, host) ==
    \E domain \in domain_list : domain = "*" \/ NegSlice(host, Len(domain)) = domain

(***************************************************************************)
(* The configuration init_config builds.                                   *)
(***************************************************************************)
\* globalvars.rules is an OrderedDict: the rule groups in configuration order
RuleNames == <<"black", "default">>

Rules == {RuleNames[i] : i \in 1..Len(RuleNames)}

\* loader.local: the black list is fetched from a URL, default.rules is a file
IsLocal(r) == r = "default"

\* value['refresh'] of every rule group, in ticks of the model's clock
RefreshInterval == 1

Upstreams == {"u1", "u2"}

\* the pools init_config can build from value['dns'] (line 374): an upstream
\* may be shared by groups, and a pool may be empty
PoolConfigs ==
    { [black |-> <<"u1">>, default |-> <<"u1", "u2">>],
      [black |-> <<>>, default |-> <<"u1", "u2">>] }

\* config['server']['search']
SearchPolicy == {"local", "upstream"}

\* the rule files the sources can hold
Contents ==
    << <<"||ad.x", "@@ok.ad.x">>,
       <<"! match all domains", "*.*">>,
       <<"||.", "@@ok.ad.x">> >>

\* the files the rule sources hold at startup and after an edit
ContentIds == {1, 2}

\* the questions clients ask: a name and a type
Queries ==
    { <<"ad.x", "A">>, <<"ok.ad.x", "A">>, <<"pc.lan", "A">>,
      <<"_ldap._tcp.hm", "SRV">> }

\* questions for names of a zone that holds no record for them
EmptyQueries == { <<"no.lan", "A">> }

\* the query names clients ask for
Hosts == {qry[1] : qry \in Queries}

\* globalvars.local_domains in the order of its values(): the apex of every
\* configured zone
ZoneNames == <<"lan", "hm">>

\* the names the configured local zones own
LocalZones == {ZoneNames[i] : i \in 1..Len(ZoneNames)}

\* the records of the zones: name, type, rdata
ZoneRecords ==
    [z \in LocalZones |->
        IF z = "lan"
        THEN { <<"pc.lan", "A", "192.168.1.2">>,
               <<"_ldap._tcp.lan", "SRV", "dc.lan">> }
        ELSE { <<"_ldap._tcp.hm", "SRV", "dc.hm">> }]

\* config['smartdns']['hack_srv']
HackSrv == {"_ldap._tcp"}

\* the addresses clients send from, and config['server']['allowed_hosts']
Clients == {"127.0.0.1", "10.0.0.9"}

AllowedHosts == {"127.0.0.1"}

Requests == 1..MaxRequests

Times == 0..MaxTime

\* what create() leaves in a fresh Adblock after reading a whole file
RECURSIVE Compile(_, _)
Compile(lines, lists) ==
    IF lines = <<>> THEN lists
    ELSE LET raw == Head(lines)
             next == IF SkipLine(raw) THEN lists
                     ELSE IF IsWhiteLine(raw)
                          THEN [lists EXCEPT !.white = @ \cup {LineDomain(raw)}]
                          ELSE [lists EXCEPT !.black = @ \cup {LineDomain(raw)}]
         IN  Compile(Tail(lines), next)

EmptyLists == [black |-> {}, white |-> {}]

\* what create() leaves in a fresh Adblock from every rule file
Compiled == [c \in 1..Len(Contents) |-> Compile(Contents[c], EmptyLists)]

\* Adblock.isBlock on given lists
IsBlockOn(lists, host) == ~InList(lists.white, host) /\ InList(lists.black, host)

(***************************************************************************)
(* What an exchange with an upstream gives the worker.                     *)
(***************************************************************************)
\* the worker has no result yet
NoResult == [kind |-> "none", rr |-> <<>>]

\* do_lookup_upstream or DNSRecord.parse raised
Failed == [kind |-> "error", rr |-> <<>>]

\* the parsed replies: rr holds the addresses of the A records of the answer
UpstreamReplies ==
    { [kind |-> "reply", rr |-> <<>>],
      [kind |-> "reply", rr |-> <<"1.2.3.4">>],
      [kind |-> "reply", rr |-> <<"9.9.9.9">>] }

(***************************************************************************)
(* The state.                                                              *)
(***************************************************************************)
VARIABLES
    pool,              \* rules[name]['upstreams']: the pool of every rule group
    search,            \* globalvars.search: the search policy
    fresh,             \* the lists of a fresh Adblock after create(), for every rule file
    rule_refresh,      \* rules[name]['refresh']: the refresh interval of every rule
    now,               \* time.time()
    content,           \* the rule file every source holds (an index of Contents)
    mtime,             \* st_mtime of the local rule file, or of the cache file
    updating,          \* Adblock.updating
    blacklist,         \* Adblock.blacklist
    whitelist,         \* Adblock.whitelist
    last_update_time,  \* BaseLoader._last_update_time
    upc,               \* where every update thread is in Adblock.update
    lines,             \* the lines an update thread has still to read
    before,            \* the lists an update thread found when it began
    loaded,            \* the rule file an update thread opened (0: none)
    queue,             \* upstreams[name]['queue']
    count,             \* upstreams[name]['count']
    cur,               \* the exchange a worker took from its queue (0: none)
    enqueued,          \* every exchange put on a queue, in put order
    served,            \* every exchange a worker took, in get order
    finished,          \* how many times a worker called queue.task_done()
    res,               \* what do_lookup_upstream and DNSRecord.parse gave a worker
    delivered,         \* the upstream replies handler.send_data was called with
    rpc,               \* where every request handler is
    client,            \* client_address[0] of every request
    qtype,             \* QTYPE[request.q.qtype] of every parsed request
    searched,          \* the domain.search calls of lookup_local: zone and name
    host,              \* qn2, the query name of a request
    idx,               \* the position of a handler's loop over the rules
    verdict,           \* what isBlock returned to a handler, rule by rule
    overlap,           \* the update thread that ran during each isBlock (0: none)
    enq,               \* the upstreams a request was put on
    replies,           \* how many times handler.send_data was called
    raised             \* an exception left dns_response to the except clause of handle()

cfgVars == <<pool, rule_refresh, fresh, search>>

envVars == <<now, content, mtime>>

ruleVars == <<updating, blacklist, whitelist, last_update_time>>

updVars == <<upc, lines, before, loaded>>

upVars == <<queue, count, cur, enqueued, served, finished, res, delivered>>

askVars == <<client, host, qtype>>

reqVars == <<rpc, askVars, idx, verdict, overlap, enq, replies, searched, raised>>

vars == <<cfgVars, envVars, ruleVars, updVars, upVars, reqVars>>

\* init_config: every Adblock is created from its source (default.rules is the
\* generated file or a file of the user), every upstream gets an empty queue
\* and an idle worker
InitFrom(files, intervals, policies) ==
    /\ pool \in PoolConfigs
    /\ search \in policies
    /\ rule_refresh \in intervals
    /\ fresh = Compiled
    /\ now = 0
    /\ content \in files
    /\ mtime = [r \in Rules |-> 0]
    /\ updating = [r \in Rules |-> FALSE]
    /\ blacklist = [r \in Rules |-> Compiled[content[r]].black]
    /\ whitelist = [r \in Rules |-> Compiled[content[r]].white]
    /\ last_update_time = [r \in Rules |-> 0]
    /\ upc = [r \in Rules |-> [t \in Requests |-> "none"]]
    /\ lines = [r \in Rules |-> [t \in Requests |-> <<>>]]
    /\ before = [r \in Rules |-> [t \in Requests |-> EmptyLists]]
    /\ loaded = [r \in Rules |-> [t \in Requests |-> 0]]
    /\ queue = [u \in Upstreams |-> <<>>]
    /\ count = [u \in Upstreams |-> 0]
    /\ cur = [u \in Upstreams |-> 0]
    /\ enqueued = [u \in Upstreams |-> <<>>]
    /\ served = [u \in Upstreams |-> <<>>]
    /\ finished = [u \in Upstreams |-> 0]
    /\ res = [u \in Upstreams |-> NoResult]
    /\ delivered = [q \in Requests |-> {}]
    /\ rpc = [q \in Requests |-> "idle"]
    /\ client = [q \in Requests |-> ""]
    /\ host = [q \in Requests |-> ""]
    /\ qtype = [q \in Requests |-> ""]
    /\ searched = [q \in Requests |-> <<>>]
    /\ idx = [q \in Requests |-> 0]
    /\ verdict = [q \in Requests |-> <<>>]
    /\ overlap = [q \in Requests |-> <<>>]
    /\ enq = [q \in Requests |-> {}]
    /\ replies = [q \in Requests |-> 0]
    /\ raised = [q \in Requests |-> FALSE]

\* the configuration of the examples: black.rules holds the first file,
\* every rule is refreshed
Init ==
    InitFrom({c \in [Rules -> ContentIds] : c["black"] = 1},
             {[r \in Rules |-> RefreshInterval]}, {SearchPolicy})

\* any rule file behind every rule
InitAnyFile ==
    InitFrom([Rules -> 1..Len(Contents)], {[r \in Rules |-> RefreshInterval]},
             {SearchPolicy})

\* rules with and without refresh (refresh 0: the rule is never refreshed)
InitAnyRefresh ==
    InitFrom({c \in [Rules -> ContentIds] : c["black"] = 1},
             [Rules -> {0, RefreshInterval}], {SearchPolicy})

\* any search policy of the configuration: 'local', 'upstream', both or none
InitAnyPolicy ==
    InitFrom({c \in [Rules -> ContentIds] : c["black"] = 1},
             {[r \in Rules |-> RefreshInterval]}, SUBSET SearchPolicy)

(***************************************************************************)
(* The environment: the clock and the rule sources.                        *)
(***************************************************************************)
Tick ==
    /\ now < MaxTime
    /\ now' = now + 1
    /\ UNCHANGED <<cfgVars, content, mtime, ruleVars, updVars, upVars, reqVars>>

\* a local rule file is written or touched: its content is any file, its
\* mtime any other time
EditLocal(r) ==
    /\ IsLocal(r)
    /\ \E c \in ContentIds : content' = [content EXCEPT ![r] = c]
    /\ \E t \in Times \ {mtime[r]} : mtime' = [mtime EXCEPT ![r] = t]
    /\ UNCHANGED <<cfgVars, now, ruleVars, updVars, upVars, reqVars>>

\* the list behind a URL changes
EditRemote(r) ==
    /\ ~IsLocal(r)
    /\ \E c \in ContentIds \ {content[r]} : content' = [content EXCEPT ![r] = c]
    /\ UNCHANGED <<cfgVars, now, mtime, ruleVars, updVars, upVars, reqVars>>

(***************************************************************************)
(* The request handler: BaseRequestHandler.handle and dns_response.        *)
(***************************************************************************)
\* Domain.inDomain: the name is the zone's name or a subdomain of it
InDomain(zone, qn) == qn = zone \/ NegSlice(qn, Len(zone) + 1) = "." \o zone

\* Domain.get_subdomain('@'): the apex of the zone
Apex(zone) == zone

\* Domain.search: the records of the zone with that name and type
Search(zone, qn, qt) == {rec \in ZoneRecords[zone] : rec[1] = qn /\ rec[2] = qt}

\* b'.'.join(qn.label[:2]): the first two labels of the name
FirstTwoLabels(qn) ==
    LET dots == Occurrences(qn, ".")
    IN  IF Cardinality(dots) < 2 THEN qn
        ELSE SubSeq(qn, 1, MinOf(dots \ {MinOf(dots)}) - 1)

\* the client may ask, whatever its address is
AllowedAny(ip) == TRUE

\* client_ip in globalvars.allowed_hosts
Allowed(ip) == ip \in AllowedHosts

\* handle() up to the parsed request, for a packet that asks qry: a client
\* that is not allowed is left at once; a frame get_data rejects and a packet
\* DNSRecord.parse rejects end the handler too
HandleQuery(q, qry) ==
    /\ rpc[q] = "idle"
    /\ \A p \in Requests : p < q => rpc[p] # "idle"
    /\ \E ip \in Clients, parsed \in BOOLEAN :
          /\ client' = [client EXCEPT ![q] = ip]
          /\ IF Allowed(ip) /\ parsed
             THEN /\ rpc' = [rpc EXCEPT ![q] = "local"]
                  /\ host' = [host EXCEPT ![q] = qry[1]]
                  /\ qtype' = [qtype EXCEPT ![q] = qry[2]]
             ELSE /\ rpc' = [rpc EXCEPT ![q] = "done"]
                  /\ UNCHANGED <<host, qtype>>
    /\ UNCHANGED <<cfgVars, envVars, ruleVars, updVars, upVars,
                   idx, verdict, overlap, enq, replies, searched, raised>>

\* handle() for the questions of the examples
Handle(q) == \E qry \in Queries : HandleQuery(q, qry)

\* the loop of lookup_local over the zones, from the zone at position i: the
\* name looked for (qn2) is rewritten for an SRV question the zone does not
\* own whose first two labels are a hacked service; the zone that owns the
\* name is searched; the loop is left once the reply has an answer
RECURSIVE LookupZones(_, _, _, _, _)
LookupZones(i, qn, qn2, qt, acc) ==
    IF i > Len(ZoneNames) THEN acc
    ELSE LET zone == ZoneNames[i]
             r_srv == FirstTwoLabels(qn)
             name == IF /\ HackSrv # {}
                        /\ qt = "SRV"
                        /\ ~InDomain(zone, qn2)
                        /\ Lower(r_srv) \in HackSrv
                     THEN r_srv \o "." \o Apex(zone)
                     ELSE qn2
         IN  IF InDomain(zone, name)
             THEN LET found == [is_local |-> TRUE,
                                rr |-> acc.rr \cup Search(zone, name, qt),
                                searched |-> Append(acc.searched, <<zone, name>>)]
                  IN  IF found.rr # {} THEN found
                      ELSE LookupZones(i + 1, qn, name, qt, found)
             ELSE LookupZones(i + 1, qn, name, qt, acc)

\* a dns_response that asks the rules whatever lookup_local returned
ForwardAlways(local, policy) == "upstream" \in policy

\* dns_response: the rules are asked, and the query may go upstream, when
\* lookup_local did not answer and the policy holds 'upstream'
Forward(local, policy) == ~local /\ "upstream" \in policy

\* dns_response up to the loop over the rules: with 'local' in the policy
\* lookup_local is called, and a name some zone owns is answered from the
\* zones, with or without records; dns_response then skips the rules
LookupLocal(q) ==
    /\ rpc[q] = "local"
    /\ LET none == [is_local |-> FALSE, rr |-> {}, searched |-> <<>>]
           found == IF "local" \in search
                    THEN LookupZones(1, host[q], host[q], qtype[q], none)
                    ELSE none
       IN  /\ IF found.is_local
              THEN /\ replies' = [replies EXCEPT ![q] = @ + 1]
                   /\ searched' = [searched EXCEPT ![q] = found.searched]
              ELSE UNCHANGED <<replies, searched>>
           /\ rpc' = [rpc EXCEPT ![q] =
                         IF Forward(found.is_local, search) /\ Len(RuleNames) > 0
                         THEN "white" ELSE "update"]
    /\ idx' = [idx EXCEPT ![q] = 1]
    /\ UNCHANGED <<cfgVars, envVars, ruleVars, updVars, upVars,
                   askVars, verdict, overlap, enq, raised>>

\* the update threads of a rule that are inside Adblock.update
Running(r) == {t \in Requests : upc[r][t] \in {"clearB", "clearW", "open", "read", "end"}}

\* the thread an isBlock overlaps with, if any
OverlapWith(q, r) ==
    IF Len(overlap[q]) = idx[q] /\ overlap[q][idx[q]] # 0 THEN overlap[q][idx[q]]
    ELSE IF Running(r) = {} THEN 0
    ELSE MinOf(Running(r))

\* after the rule at idx[q] did not match: the next rule, or the end of the loop
NextRule(q) == IF idx[q] < Len(RuleNames) THEN "white" ELSE "update"

NextIdx(q) == IF idx[q] < Len(RuleNames) THEN idx[q] + 1 ELSE 1

\* isBlock, first half: isWhite reads the whitelist
IsWhite(q) ==
    /\ rpc[q] = "white"
    /\ LET r == RuleNames[idx[q]] IN
          IF InList(whitelist[r], host[q])
          THEN /\ verdict' = [verdict EXCEPT ![q] = Append(@, FALSE)]
               /\ overlap' = [overlap EXCEPT ![q] = Append(@, OverlapWith(q, r))]
               /\ rpc' = [rpc EXCEPT ![q] = NextRule(q)]
               /\ idx' = [idx EXCEPT ![q] = NextIdx(q)]
          ELSE /\ overlap' = [overlap EXCEPT ![q] = Append(@, OverlapWith(q, r))]
               /\ rpc' = [rpc EXCEPT ![q] = "black"]
               /\ UNCHANGED <<verdict, idx>>
    /\ UNCHANGED <<cfgVars, envVars, ruleVars, updVars, upVars, askVars, enq, replies,
                   searched, raised>>

\* isBlock, second half: isBlack reads the blacklist
IsBlack(q) ==
    /\ rpc[q] = "black"
    /\ LET r == RuleNames[idx[q]]
           b == InList(blacklist[r], host[q])
       IN /\ verdict' = [verdict EXCEPT ![q] = Append(@, b)]
          /\ overlap' = [overlap EXCEPT ![q][idx[q]] = OverlapWith(q, r)]
          /\ rpc' = [rpc EXCEPT ![q] = IF b THEN "dispatch" ELSE NextRule(q)]
          /\ idx' = [idx EXCEPT ![q] = IF b THEN @ ELSE NextIdx(q)]
    /\ UNCHANGED <<cfgVars, envVars, ruleVars, updVars, upVars, askVars, enq, replies,
                   searched, raised>>

\* Queue(): maxsize 0, a queue without a bound
QueueMaxSize == 0

\* Queue.put returns at once unless the queue has a bound and is full
CanPutFull(u) == Len(queue[u]) < 1

CanPut(u) == QueueMaxSize <= 0 \/ Len(queue[u]) < QueueMaxSize

\* the members of a pool
Members(p) == {p[i] : i \in 1..Len(p)}

\* the upstreams dns_response puts a request on once a rule matched, with a
\* loop that goes on to the later rules instead of leaving at the first match
TargetsNoBreak(q) ==
    UNION {Members(pool[RuleNames[i]]) : i \in idx[q]..Len(RuleNames)}

\* the upstreams dns_response puts a request on once the rule at idx[q] matched
Targets(q) == Members(pool[RuleNames[idx[q]]])

\* the rule matched: the request is put on the queues of the rule's upstreams,
\* and the loop over the rules is left
Dispatch(q) ==
    /\ rpc[q] = "dispatch"
    /\ \A u \in Targets(q) : CanPut(u)
    /\ queue' = [u \in Upstreams |->
                    IF u \in Targets(q) THEN Append(queue[u], q) ELSE queue[u]]
    /\ enqueued' = [u \in Upstreams |->
                       IF u \in Targets(q) THEN Append(enqueued[u], q) ELSE enqueued[u]]
    /\ count' = [u \in Upstreams |-> IF u \in Targets(q) THEN count[u] + 1 ELSE count[u]]
    /\ enq' = [enq EXCEPT ![q] = @ \cup Targets(q)]
    /\ rpc' = [rpc EXCEPT ![q] = "update"]
    /\ idx' = [idx EXCEPT ![q] = 1]
    /\ UNCHANGED <<cfgVars, envVars, ruleVars, updVars, cur, served, finished, res,
                   delivered, askVars, verdict, overlap, replies, searched, raised>>

\* a check that takes a local file for changed only when it is newer
LoaderIsNewer(r, refresh) ==
    IF IsLocal(r)
    THEN mtime[r] > last_update_time[r]
    ELSE now > last_update_time[r] + refresh

\* BaseLoader.isNeedUpdate
LoaderIsNeedUpdate(r, refresh) ==
    IF IsLocal(r)
    THEN last_update_time[r] # mtime[r]
    ELSE now > last_update_time[r] + refresh

\* Adblock.isNeedUpdate
IsNeedUpdate(r, refresh) ==
    IF updating[r] \/ refresh = 0 THEN FALSE ELSE LoaderIsNeedUpdate(r, refresh)

\* the loop after the query over the rules: a rule that needs an update gets a
\* thread that runs Adblock.update (async_update).  The same loop over the
\* local zones (Domain.isNeedUpdate, Domain.async_update) touches no state of
\* the rules or the upstreams.
CheckUpdate(q) ==
    /\ rpc[q] = "update"
    /\ LET r == RuleNames[idx[q]] IN
          IF IsNeedUpdate(r, rule_refresh[r])
          THEN upc' = [upc EXCEPT ![r][q] = "start"]
          ELSE UNCHANGED upc
    /\ IF idx[q] < Len(RuleNames)
       THEN /\ idx' = [idx EXCEPT ![q] = @ + 1]
            /\ UNCHANGED rpc
       ELSE /\ rpc' = [rpc EXCEPT ![q] = "done"]
            /\ UNCHANGED idx
    /\ UNCHANGED <<cfgVars, envVars, ruleVars, lines, before, loaded, upVars,
                   askVars, verdict, overlap, enq, replies, searched, raised>>

\* a handle() without the try around get_data and dns_response: the exception
\* leaves handle()
HandleNoExcept == "raised"

\* handle(): the except clause catches every Exception, logs it, and handle()
\* returns
HandleExcept == "done"

\* the same loop when the local rule file is gone: os.stat raises in
\* BaseLoader.isNeedUpdate, the exception leaves dns_response after the query
\* was answered or put on the queues, and handle() catches it
CheckUpdateFail(q) ==
    /\ rpc[q] = "update"
    /\ LET r == RuleNames[idx[q]] IN
          IsLocal(r) /\ ~updating[r] /\ rule_refresh[r] # 0
    /\ rpc' = [rpc EXCEPT ![q] = HandleExcept]
    /\ raised' = [raised EXCEPT ![q] = TRUE]
    /\ UNCHANGED <<cfgVars, envVars, ruleVars, updVars, upVars,
                   askVars, idx, verdict, overlap, enq, replies, searched>>

(***************************************************************************)
(* An update thread: Adblock.update, statement by statement.               *)
(***************************************************************************)
\* self.updating = True
UpdateBegin(r, t) ==
    /\ upc[r][t] = "start"
    /\ updating' = [updating EXCEPT ![r] = TRUE]
    /\ before' = [before EXCEPT ![r][t] = [black |-> blacklist[r], white |-> whitelist[r]]]
    /\ upc' = [upc EXCEPT ![r][t] = "clearB"]
    /\ UNCHANGED <<cfgVars, envVars, blacklist, whitelist, last_update_time,
                   lines, loaded, upVars, reqVars>>

\* update() without the two assignments: the set stays as it is
KeptSet(old) == old

\* set(): the list an assignment of update() leaves, whatever it held
NewSet(old) == {}

\* self.blacklist = set()
UpdateClearBlack(r, t) ==
    /\ upc[r][t] = "clearB"
    /\ blacklist' = [blacklist EXCEPT ![r] = NewSet(@)]
    /\ upc' = [upc EXCEPT ![r][t] = "clearW"]
    /\ UNCHANGED <<cfgVars, envVars, updating, whitelist, last_update_time,
                   lines, before, loaded, upVars, reqVars>>

\* self.whitelist = set()
UpdateClearWhite(r, t) ==
    /\ upc[r][t] = "clearW"
    /\ whitelist' = [whitelist EXCEPT ![r] = NewSet(@)]
    /\ upc' = [upc EXCEPT ![r][t] = "open"]
    /\ UNCHANGED <<cfgVars, envVars, updating, blacklist, last_update_time,
                   lines, before, loaded, upVars, reqVars>>

\* a file object kept from the open before, read to its end: readline gives ''
OpenAtEnd(c) == <<>>

\* the file object open() returns: readline starts at the first line
OpenLines(c) == Contents[c]

\* an open() that leaves _last_update_time as it was
LoadTimeKept(r) == last_update_time[r]

\* the time open() stores in _last_update_time: st_mtime of the local file,
\* or of the cache file, which open() has just written
LoadTime(r) == IF IsLocal(r) THEN mtime[r] ELSE now

\* loader.open(cache=False) succeeds: a local file is read as it is; a remote
\* list is fetched and written to the cache file
UpdateOpen(r, t) ==
    /\ upc[r][t] = "open"
    /\ IF IsLocal(r)
       THEN UNCHANGED mtime
       ELSE mtime' = [mtime EXCEPT ![r] = now]
    /\ last_update_time' = [last_update_time EXCEPT ![r] = LoadTime(r)]
    /\ lines' = [lines EXCEPT ![r][t] = OpenLines(content[r])]
    /\ loaded' = [loaded EXCEPT ![r][t] = content[r]]
    /\ upc' = [upc EXCEPT ![r][t] = "read"]
    /\ UNCHANGED <<cfgVars, now, content, updating, blacklist, whitelist,
                   before, upVars, reqVars>>

\* loader.open(cache=False) raises (the URL cannot be fetched): the exception
\* leaves update() and ends the thread
UpdateOpenFail(r, t) ==
    /\ upc[r][t] = "open"
    /\ ~IsLocal(r)
    /\ upc' = [upc EXCEPT ![r][t] = "dead"]
    /\ UNCHANGED <<cfgVars, envVars, ruleVars, lines, before, loaded, upVars, reqVars>>

\* one turn of the loop of create() over the lines of the file
UpdateReadLine(r, t) ==
    /\ upc[r][t] = "read"
    /\ lines[r][t] # <<>>
    /\ LET raw == Head(lines[r][t]) IN
          /\ blacklist' = [blacklist EXCEPT ![r] =
                              IF SkipLine(raw) \/ IsWhiteLine(raw) THEN @
                              ELSE @ \cup {LineDomain(raw)}]
          /\ whitelist' = [whitelist EXCEPT ![r] =
                              IF SkipLine(raw) \/ ~IsWhiteLine(raw) THEN @
                              ELSE @ \cup {LineDomain(raw)}]
    /\ lines' = [lines EXCEPT ![r][t] = Tail(@)]
    /\ UNCHANGED <<cfgVars, envVars, updating, last_update_time, upc,
                   before, loaded, upVars, reqVars>>

\* the file is read to its end: self.updating = False
UpdateEnd(r, t) ==
    /\ upc[r][t] = "read"
    /\ lines[r][t] = <<>>
    /\ updating' = [updating EXCEPT ![r] = FALSE]
    /\ upc' = [upc EXCEPT ![r][t] = "done"]
    /\ UNCHANGED <<cfgVars, envVars, blacklist, whitelist, last_update_time,
                   lines, before, loaded, upVars, reqVars>>

(***************************************************************************)
(* The worker of an upstream: lookup_upstream_worker.                      *)
(***************************************************************************)
\* the exchange queue.get() returns, taken at the tail instead of the head
TakeLast(u) == queue[u][Len(queue[u])]

\* the exchange queue.get() returns
Take(u) == Head(queue[u])

\* the queue after taking the exchange at position i
Without(s, i) == SubSeq(s, 1, i - 1) \o SubSeq(s, i + 1, Len(s))

\* queue.get(): the worker waits for an exchange and takes it
WorkerGet(u) ==
    /\ cur[u] = 0
    /\ queue[u] # <<>>
    /\ cur' = [cur EXCEPT ![u] = Take(u)]
    /\ served' = [served EXCEPT ![u] = Append(@, Take(u))]
    /\ queue' = [queue EXCEPT ![u] =
                    Without(@, CHOOSE i \in 1..Len(@) : @[i] = Take(u))]
    /\ res' = [res EXCEPT ![u] = NoResult]
    /\ UNCHANGED <<cfgVars, envVars, ruleVars, updVars, count, enqueued, finished,
                   delivered, reqVars>>

\* the exchange with the upstream: do_lookup_upstream returns bytes that
\* DNSRecord.parse accepts, a reply with some answer section, or one of the two
\* raises (an I/O error, a timeout, a packet that does not parse)
WorkerLookup(u) ==
    /\ cur[u] # 0
    /\ res[u] = NoResult
    /\ \E r \in UpstreamReplies \cup {Failed} : res' = [res EXCEPT ![u] = r]
    /\ UNCHANGED <<cfgVars, envVars, ruleVars, updVars, queue, count, cur, enqueued,
                   served, finished, delivered, reqVars>>

\* what the TCP branch of do_lookup_upstream holds when the upstream closed
\* the connection early: at least the two bytes of the length, and fewer bytes
\* after them than the length says
Short == [kind |-> "short", rr |-> <<>>]

\* the TCP branch of do_lookup_upstream with an upstream that sends the length
\* and a part of the answer and closes the connection: the worker enters the
\* loop while len(response) - 2 < length
WorkerRecvShort(u) ==
    /\ cur[u] # 0
    /\ res[u] = NoResult
    /\ res' = [res EXCEPT ![u] = Short]
    /\ UNCHANGED <<cfgVars, envVars, ruleVars, updVars, queue, count, cur, enqueued,
                   served, finished, delivered, reqVars>>

\* one turn of that loop: recv on the closed connection returns b'' at once,
\* no timeout is raised, response is as long as before and the condition of
\* the loop is true again
WorkerRecvAgain(u) ==
    /\ cur[u] # 0
    /\ res[u] = Short
    /\ res' = [res EXCEPT ![u] = Short]
    /\ UNCHANGED <<cfgVars, envVars, ruleVars, updVars, queue, count, cur, enqueued,
                   served, finished, delivered, reqVars>>

\* the except clause of the worker's loop, without a try around the exchange:
\* the exception ends the thread
DiesOnError(r) == IF r = Failed THEN 0 - 1 ELSE 0

\* the worker after an exchange: the except clause catches every Exception and
\* the while loop goes on to the next queue.get()
LoopAgain(r) == 0

\* the rest of the loop body: a reply with answers is packed as it is and sent
\* to the handler; a reply without answers and an exception send nothing;
\* queue.task_done()
WorkerFinish(u) ==
    /\ cur[u] > 0
    /\ res[u].kind \in {"reply", "error"}
    /\ IF res[u].kind = "reply" /\ res[u].rr # <<>>
       THEN /\ replies' = [replies EXCEPT ![cur[u]] = @ + 1]
            /\ delivered' = [delivered EXCEPT ![cur[u]] = @ \cup {res[u].rr}]
       ELSE UNCHANGED <<replies, delivered>>
    /\ cur' = [cur EXCEPT ![u] = LoopAgain(res[u])]
    /\ finished' = [finished EXCEPT ![u] = @ + 1]
    /\ UNCHANGED <<cfgVars, envVars, ruleVars, updVars, queue, count, enqueued, served,
                   res, rpc, askVars, idx, verdict, overlap, enq, searched, raised>>

(***************************************************************************)
(* The specification.  Spec is the whole program.  SpecLocal, SpecRemote   *)
(* and SpecUpstream are the program in an environment that moves in one    *)
(* way only; every behaviour of theirs is a behaviour of Spec.             *)
(***************************************************************************)
Next ==
    \/ Tick
    \/ \E r \in Rules : EditLocal(r)
    \/ \E r \in Rules : EditRemote(r)
    \/ \E q \in Requests : Handle(q)
    \/ \E q \in Requests : LookupLocal(q)
    \/ \E q \in Requests : IsWhite(q)
    \/ \E q \in Requests : IsBlack(q)
    \/ \E q \in Requests : Dispatch(q)
    \/ \E q \in Requests : CheckUpdate(q)
    \/ \E q \in Requests : CheckUpdateFail(q)
    \/ \E r \in Rules, t \in Requests : UpdateBegin(r, t)
    \/ \E r \in Rules, t \in Requests : UpdateClearBlack(r, t)
    \/ \E r \in Rules, t \in Requests : UpdateClearWhite(r, t)
    \/ \E r \in Rules, t \in Requests : UpdateOpen(r, t)
    \/ \E r \in Rules, t \in Requests : UpdateOpenFail(r, t)
    \/ \E r \in Rules, t \in Requests : UpdateReadLine(r, t)
    \/ \E r \in Rules, t \in Requests : UpdateEnd(r, t)
    \/ \E u \in Upstreams : WorkerGet(u)
    \/ \E u \in Upstreams : WorkerLookup(u)
    \/ \E u \in Upstreams : WorkerRecvShort(u)
    \/ \E u \in Upstreams : WorkerRecvAgain(u)
    \/ \E u \in Upstreams : WorkerFinish(u)

Spec == Init /\ [][Next]_vars

\* the refresh of the rules reads no pool: one pool configuration
InitOnePool == Init /\ pool = [black |-> <<"u1">>, default |-> <<"u1", "u2">>]

\* the handlers and the refresh of the local rule files: the clock stands
\* still, the workers are not scheduled
NextLocal ==
    \/ \E r \in Rules : EditLocal(r)
    \/ \E q \in Requests : Handle(q)
    \/ \E q \in Requests : LookupLocal(q)
    \/ \E q \in Requests : IsWhite(q)
    \/ \E q \in Requests : IsBlack(q)
    \/ \E q \in Requests : Dispatch(q)
    \/ \E q \in Requests : CheckUpdate(q)
    \/ \E r \in Rules, t \in Requests : UpdateBegin(r, t)
    \/ \E r \in Rules, t \in Requests : UpdateClearBlack(r, t)
    \/ \E r \in Rules, t \in Requests : UpdateClearWhite(r, t)
    \/ \E r \in Rules, t \in Requests : UpdateOpen(r, t)
    \/ \E r \in Rules, t \in Requests : UpdateReadLine(r, t)
    \/ \E r \in Rules, t \in Requests : UpdateEnd(r, t)

SpecLocal == InitOnePool /\ [][NextLocal]_vars

\* the handlers and the refresh of the remote lists: the local files stay as
\* they are, the workers are not scheduled
NextRemote ==
    \/ Tick
    \/ \E r \in Rules : EditRemote(r)
    \/ \E q \in Requests : Handle(q)
    \/ \E q \in Requests : LookupLocal(q)
    \/ \E q \in Requests : IsWhite(q)
    \/ \E q \in Requests : IsBlack(q)
    \/ \E q \in Requests : Dispatch(q)
    \/ \E q \in Requests : CheckUpdate(q)
    \/ \E r \in Rules, t \in Requests : UpdateBegin(r, t)
    \/ \E r \in Rules, t \in Requests : UpdateClearBlack(r, t)
    \/ \E r \in Rules, t \in Requests : UpdateClearWhite(r, t)
    \/ \E r \in Rules, t \in Requests : UpdateOpen(r, t)
    \/ \E r \in Rules, t \in Requests : UpdateOpenFail(r, t)
    \/ \E r \in Rules, t \in Requests : UpdateReadLine(r, t)
    \/ \E r \in Rules, t \in Requests : UpdateEnd(r, t)

SpecRemote == InitOnePool /\ [][NextRemote]_vars

\* the handlers and the workers while no rule source changes and no refresh
\* interval elapses: no rule needs an update
NextUpstream ==
    \/ \E q \in Requests : Handle(q)
    \/ \E q \in Requests : LookupLocal(q)
    \/ \E q \in Requests : IsWhite(q)
    \/ \E q \in Requests : IsBlack(q)
    \/ \E q \in Requests : Dispatch(q)
    \/ \E q \in Requests : CheckUpdate(q)
    \/ \E u \in Upstreams : WorkerGet(u)
    \/ \E u \in Upstreams : WorkerLookup(u)
    \/ \E u \in Upstreams : WorkerFinish(u)

SpecUpstream == Init /\ [][NextUpstream]_vars

\* the requests a handler is serving
Serving == {q \in Requests : rpc[q] \notin {"idle", "done"}}

\* the update threads that have not come to their end
Active ==
    {rt \in Rules \X Requests :
        upc[rt[1]][rt[2]] \in {"start", "clearB", "clearW", "open", "read"}}

\* no handler and no update thread is at work
Quiet == Serving = {} /\ Active = {}

\* the handlers and the workers, the requests arriving one after the other: a
\* handler starts once the handler before it has returned, while the workers
\* run beside the handlers
NextSerialUpstream ==
    \/ \E q \in Requests : Serving = {} /\ Handle(q)
    \/ \E q \in Requests : LookupLocal(q)
    \/ \E q \in Requests : IsWhite(q)
    \/ \E q \in Requests : IsBlack(q)
    \/ \E q \in Requests : Dispatch(q)
    \/ \E q \in Requests : CheckUpdate(q)
    \/ \E u \in Upstreams : WorkerGet(u)
    \/ \E u \in Upstreams : WorkerLookup(u)
    \/ \E u \in Upstreams : WorkerFinish(u)

SpecSerialUpstream == Init /\ [][NextSerialUpstream]_vars

\* the steps of the worker thread of an upstream
Worker(u) ==
    \/ WorkerGet(u)
    \/ WorkerLookup(u)
    \/ WorkerRecvShort(u)
    \/ WorkerRecvAgain(u)
    \/ WorkerFinish(u)

\* the handlers, one after the other, and the workers with upstreams that may
\* close a TCP connection early
NextTcpUpstream ==
    \/ \E q \in Requests : Serving = {} /\ Handle(q)
    \/ \E q \in Requests : LookupLocal(q)
    \/ \E q \in Requests : IsWhite(q)
    \/ \E q \in Requests : IsBlack(q)
    \/ \E q \in Requests : Dispatch(q)
    \/ \E q \in Requests : CheckUpdate(q)
    \/ \E u \in Upstreams : WorkerGet(u)
    \/ \E u \in Upstreams : WorkerLookup(u)
    \/ \E u \in Upstreams : WorkerRecvShort(u)
    \/ \E u \in Upstreams : WorkerRecvAgain(u)
    \/ \E u \in Upstreams : WorkerFinish(u)

\* every worker is a daemon thread of its own (init_config starts one for
\* every upstream): a worker that can take a step takes one
FairThreads == \A u \in Upstreams : WF_vars(Worker(u))

SpecFairTcp == Init /\ [][NextTcpUpstream]_vars /\ FairThreads

\* the same with upstreams that answer in full, answer wrongly or not at all
SpecFairUpstream == Init /\ [][NextSerialUpstream]_vars /\ FairThreads

\* the same with any rule file behind the rules
SpecAnyFile == InitAnyFile /\ [][NextSerialUpstream]_vars

\* the handlers and the refresh of the local rule files, one thing after the
\* other: a file is edited and a request arrives while no handler and no update
\* thread is at work; the threads a handler started run beside it
NextQuietLocal ==
    \/ \E r \in Rules : Quiet /\ EditLocal(r)
    \/ \E q \in Requests : Quiet /\ Handle(q)
    \/ \E q \in Requests : LookupLocal(q)
    \/ \E q \in Requests : IsWhite(q)
    \/ \E q \in Requests : IsBlack(q)
    \/ \E q \in Requests : Dispatch(q)
    \/ \E q \in Requests : CheckUpdate(q)
    \/ \E r \in Rules, t \in Requests : UpdateBegin(r, t)
    \/ \E r \in Rules, t \in Requests : UpdateClearBlack(r, t)
    \/ \E r \in Rules, t \in Requests : UpdateClearWhite(r, t)
    \/ \E r \in Rules, t \in Requests : UpdateOpen(r, t)
    \/ \E r \in Rules, t \in Requests : UpdateReadLine(r, t)
    \/ \E r \in Rules, t \in Requests : UpdateEnd(r, t)

\* the local rule with and without refresh, one pool configuration
InitQuietLocal ==
    /\ InitAnyRefresh
    /\ pool = [black |-> <<"u1">>, default |-> <<"u1", "u2">>]
    /\ \A r \in Rules : ~IsLocal(r) => rule_refresh[r] = RefreshInterval

SpecQuietLocal == InitQuietLocal /\ [][NextQuietLocal]_vars

\* the handlers and the refresh of every rule, one thing after the other: the
\* clock moves, a local file is edited and a request arrives while no handler
\* and no update thread is at work; every fetch succeeds; the clients ask one
\* question (the loop that looks for stale rules runs after any parsed
\* question and reads nothing of it)
NextQuietSources ==
    \/ Quiet /\ Tick
    \/ \E r \in Rules : Quiet /\ EditLocal(r)
    \/ \E q \in Requests : Quiet /\ HandleQuery(q, <<"ad.x", "A">>)
    \/ \E q \in Requests : LookupLocal(q)
    \/ \E q \in Requests : IsWhite(q)
    \/ \E q \in Requests : IsBlack(q)
    \/ \E q \in Requests : Dispatch(q)
    \/ \E q \in Requests : CheckUpdate(q)
    \/ \E r \in Rules, t \in Requests : UpdateBegin(r, t)
    \/ \E r \in Rules, t \in Requests : UpdateClearBlack(r, t)
    \/ \E r \in Rules, t \in Requests : UpdateClearWhite(r, t)
    \/ \E r \in Rules, t \in Requests : UpdateOpen(r, t)
    \/ \E r \in Rules, t \in Requests : UpdateReadLine(r, t)
    \/ \E r \in Rules, t \in Requests : UpdateEnd(r, t)

SpecQuietSources == InitOnePool /\ [][NextQuietSources]_vars

\* the handlers alone, one after the other, while the local rule file may be
\* gone when a handler looks at it: no worker is scheduled, no source changes
NextHandlers ==
    \/ \E q \in Requests : Serving = {} /\ Handle(q)
    \/ \E q \in Requests : LookupLocal(q)
    \/ \E q \in Requests : IsWhite(q)
    \/ \E q \in Requests : IsBlack(q)
    \/ \E q \in Requests : Dispatch(q)
    \/ \E q \in Requests : CheckUpdate(q)
    \/ \E q \in Requests : CheckUpdateFail(q)

SpecHandlers == Init /\ [][NextHandlers]_vars

\* the handlers alone, one after the other, under any search policy, the
\* clients asking for names without records too
NextAnyPolicy ==
    \/ \E q \in Requests, qry \in Queries \cup EmptyQueries :
          Serving = {} /\ HandleQuery(q, qry)
    \/ \E q \in Requests : LookupLocal(q)
    \/ \E q \in Requests : IsWhite(q)
    \/ \E q \in Requests : IsBlack(q)
    \/ \E q \in Requests : Dispatch(q)
    \/ \E q \in Requests : CheckUpdate(q)

SpecAnyPolicy == InitAnyPolicy /\ [][NextAnyPolicy]_vars

(***************************************************************************)
(* The claims.                                                             *)
(***************************************************************************)
\* the lists of a rule as they are now
ListsOf(r) == [black |-> blacklist[r], white |-> whitelist[r]]

\* the positions of the rule groups whose list blocks the host of a request
Blocking(q) == {i \in 1..Len(RuleNames) : IsBlockOn(ListsOf(RuleNames[i]), host[q])}

\* the handler of a request is past the loop over the rules
Routed(q) == verdict[q] # <<>> /\ rpc[q] \in {"update", "done"}

\* C1: a request is put only on upstreams of the first rule group, in
\* configuration order, whose list blocks its host: on all of them once the
\* handler is past the rules, on none when that pool is empty or no group
\* blocks the host, and never on an upstream that only a later group has.
C1_FirstMatchOnly ==
    \A q \in Requests :
        /\ enq[q] \subseteq
              (IF Blocking(q) = {} THEN {}
               ELSE Members(pool[RuleNames[MinOf(Blocking(q))]]))
        /\ Routed(q) /\ Blocking(q) # {} =>
              enq[q] = Members(pool[RuleNames[MinOf(Blocking(q))]])

\* the first group blocks the host and has an empty pool, a later group blocks
\* it too and has upstreams: the request was routed and is on no queue
C1_Witness ==
    \E q \in Requests :
        /\ Routed(q)
        /\ Blocking(q) = {1, 2}
        /\ pool[RuleNames[1]] = <<>>
        /\ pool[RuleNames[2]] # <<>>
        /\ enq[q] = {}

\* C2: every request a rule group with upstreams matched is on the queue of
\* exactly one upstream.
C2_ExactlyOneQueue ==
    \A q \in Requests :
        Routed(q) /\ Blocking(q) # {} /\ pool[RuleNames[MinOf(Blocking(q))]] # <<>> =>
            Cardinality(enq[q]) = 1

\* C3: at most one thread is inside Adblock.update of a rule at any time.
C3_OneRefreshInFlight == \A r \in Rules : Cardinality(Running(r)) <= 1

\* C4: an isBlock that ran while an update thread (the only one its rule ever
\* had) was inside update() returned what the lists before that update, or the
\* lists the update built, give for the host.
C4_CompleteSnapshot ==
    \A q \in Requests : \A i \in 1..Len(verdict[q]) :
        LET r == RuleNames[i]
            t == overlap[q][i]
        IN  /\ t # 0
            /\ upc[r][t] = "done"
            /\ \A t2 \in Requests \ {t} : upc[r][t2] = "none"
            => verdict[q][i] \in
                  { IsBlockOn(before[r][t], host[q]),
                    IsBlockOn(Compile(Contents[loaded[r][t]], EmptyLists), host[q]) }

\* the update threads of a rule that ended, normally or with an exception
Ended(r) == {t \in Requests : upc[r][t] \in {"done", "dead"}}

\* C5: once every update thread of a rule that began has ended, by a return or
\* by an exception, the rule's updating flag is false.
C5_FlagCleared ==
    \A r \in Rules :
        Ended(r) # {} /\ (\A t \in Requests : upc[r][t] \in {"none", "done", "dead"})
            => ~updating[r]

\* C6: after an update that failed to open its source (the only update its
\* rule ever had) the lists are what they were when the update began.
C6_SnapshotKept ==
    \A r \in Rules : \A t \in Requests :
        upc[r][t] = "dead" /\ (\A t2 \in Requests \ {t} : upc[r][t2] = "none")
            => ListsOf(r) = before[r][t]

\* the scores an upstream can have
Priorities == {40, 80, 90}

\* select(pool): the member with the highest priority, the earliest among ties
Select(p, priority) ==
    p[MinOf({i \in 1..Len(p) : \A j \in 1..Len(p) : priority[p[j]] <= priority[p[i]]})]

\* the pool of the group that matched a routed request
MatchedPool(q) == pool[RuleNames[MinOf(Blocking(q))]]

\* C7: the upstreams hold priorities, and a request a group with upstreams
\* matched is on the queue of the selected member of the pool and on no other.
C7_SelectedMember ==
    \A q \in Requests :
        Routed(q) /\ Blocking(q) # {} /\ MatchedPool(q) # <<>> =>
            \E priority \in [Upstreams -> Priorities] :
                enq[q] = {Select(MatchedPool(q), priority)}

\* C8: the score of an upstream (count is the only number init_config gives an
\* upstream) rises by 5, up to 100, when its worker sends a reply, and falls by
\* 10 (by 1 from 0), down to 0, when the exchange gives no reply.
C8_PriorityAdapted ==
    [][\A u \in Upstreams :
          cur[u] # 0 /\ cur'[u] = 0 =>
              IF replies' # replies
              THEN count'[u] = (IF count[u] + 5 > 100 THEN 100 ELSE count[u] + 5)
              ELSE count'[u] = (IF count[u] = 0 THEN 0
                                ELSE IF count[u] < 10 THEN 0 ELSE count[u] - 10)]_vars

\* s is a prefix of t
IsPrefix(s, t) == Len(s) <= Len(t) /\ SubSeq(t, 1, Len(s)) = s

\* C9: an upstream has one queue, which holds the requests of every group it
\* is in; its worker takes them in the order they were put, one at a time: it
\* takes the next only after task_done() for the one before.
C9_OneWorkerFifo ==
    \A u \in Upstreams :
        /\ IsPrefix(served[u], enqueued[u])
        /\ enqueued[u] = served[u] \o queue[u]
        /\ \A q \in Requests : (u \in enq[q]) <=> (\E i \in 1..Len(enqueued[u]) : enqueued[u][i] = q)
        /\ Len(served[u]) - finished[u] \in {0, 1}
        /\ (Len(served[u]) - finished[u] = 1) <=> (cur[u] # 0)

\* an upstream that two groups share has taken, in the order they were put,
\* two requests that different groups matched, while the worker of another
\* upstream is in an exchange of its own
C9_Witness ==
    \E u \in Upstreams, v \in Upstreams :
        /\ u # v
        /\ Len(served[u]) = 2
        /\ \E q \in Requests, p \in Requests :
              /\ served[u] = <<q, p>>
              /\ MinOf(Blocking(q)) # MinOf(Blocking(p))
        /\ cur[u] # 0
        /\ cur[v] # 0

\* C10: a handler that has a request to put on queues is never made to wait,
\* whatever the queues hold and whatever their workers do; and a worker with a
\* request in its queue can take it whatever the other workers do.
C10_DispatchNeverBlocks ==
    /\ \A q \in Requests : rpc[q] = "dispatch" => ENABLED Dispatch(q)
    /\ \A u \in Upstreams : cur[u] = 0 /\ queue[u] # <<>> => ENABLED WorkerGet(u)

\* a request was put behind another one on the queue of an upstream whose
\* worker is in an exchange
C10_Witness ==
    \E u \in Upstreams :
        /\ cur[u] # 0
        /\ queue[u] # <<>>
        /\ enqueued[u][Len(enqueued[u])] = queue[u][Len(queue[u])]
        /\ Len(enqueued[u]) >= 2

\* C11: every upstream reply a worker received and parsed is delivered to the
\* reply-sink of its exchange, whatever its answer section holds, a reply
\* without answer records included: when a worker ends an exchange whose
\* result is a parsed reply, that reply is among those sent to the handler.
C11_ParsedReplyDelivered ==
    [][\A u \in Upstreams :
          (cur[u] > 0 /\ cur'[u] = 0 /\ res[u].kind = "reply")
              => res[u].rr \in delivered'[cur[u]]]_vars

\* C12: when the exchange fails (I/O error, timeout, a reply that does not
\* parse) the worker sends nothing to the reply-sink for that exchange, it
\* does not terminate, and it goes on to serve the next queued exchange: the
\* step that ends a failed exchange leaves every reply-sink alone and takes the
\* worker back to queue.get(), and a worker back from a failure with an
\* exchange waiting can take it.
C12_FailureSkipsExchange ==
    /\ [][\A u \in Upstreams :
             (cur[u] > 0 /\ cur'[u] # cur[u] /\ res[u] = Failed)
                 => /\ replies' = replies
                    /\ delivered' = delivered
                    /\ cur'[u] = 0
                    /\ finished'[u] = finished[u] + 1]_vars
    /\ [](\A u \in Upstreams :
             (res[u] = Failed /\ cur[u] <= 0 /\ queue[u] # <<>>)
                 => ENABLED WorkerGet(u))

\* a worker is back at queue.get() from a failed exchange that sent nothing,
\* and the next exchange waits on its queue
C12_Witness ==
    \E u \in Upstreams :
        /\ res[u] = Failed
        /\ cur[u] = 0
        /\ finished[u] = Len(served[u])
        /\ finished[u] > 0
        /\ replies[served[u][finished[u]]] = 0
        /\ queue[u] # <<>>

\* the addresses the sanitizer is configured with in the claim's example
BogusSet == {"1.2.3.4"}

\* C13: no upstream reply delivered to a reply-sink holds an A or AAAA answer
\* whose address is in the bogus set.
C13_NoBogusDelivered ==
    \A q \in Requests : \A rr \in delivered[q] :
        \A i \in 1..Len(rr) : rr[i] \notin BogusSet

\* an entry matches a host as the claim has it: the entry is "*", or the last
\* Len(d) characters of the host are d
SuffixMatch(d, h) ==
    d = "*" \/ (Len(d) <= Len(h) /\ SubSeq(h, Len(h) - Len(d) + 1, Len(h)) = d)

\* C14: isBlock(host) is true exactly when some blacklist entry matches the
\* host and no whitelist entry matches it, an entry d matching when d is "*"
\* or the last len(d) characters of the host equal d: every verdict a handler
\* got from a rule is that of the rule's lists.
C14_SuffixVerdict ==
    \A q \in Requests : \A i \in 1..Len(verdict[q]) :
        LET r == RuleNames[i] IN
            verdict[q][i] = (/\ \E d \in blacklist[r] : SuffixMatch(d, host[q])
                             /\ \A d \in whitelist[r] : ~SuffixMatch(d, host[q]))

\* the update thread of a rule that came to its end last: the threads of the
\* requests before it have ended, those of the requests after it never began
LastUpdate(r, t) ==
    /\ upc[r][t] = "done"
    /\ \A t2 \in Requests \ {t} :
          IF t2 < t THEN upc[r][t2] \in {"none", "done"} ELSE upc[r][t2] = "none"

\* C15: compile replaces both lists wholesale and never merges: after an
\* update read the file L2 into an Adblock that held the lists of a file L1,
\* the lists are those create() leaves in a fresh Adblock from L2.
C15_Wholesale ==
    \A r \in Rules, t \in Requests :
        LastUpdate(r, t) => ListsOf(r) = fresh[loaded[r][t]]

\* an update ended and an entry the lists held before it is gone
C15_Witness ==
    \E r \in Rules, t \in Requests :
        /\ LastUpdate(r, t)
        /\ before[r][t].black \ blacklist[r] # {}
        /\ blacklist[r] # {}

\* C16: compile is idempotent: an update that reads the file the lists came
\* from leaves the lists as they were.
C16_Idempotent ==
    \A r \in Rules, t \in Requests :
        (LastUpdate(r, t) /\ before[r][t] = fresh[loaded[r][t]])
            => ListsOf(r) = before[r][t]

\* an update read the same file again, a file with entries in both lists
C16_Witness ==
    \E r \in Rules, t \in Requests :
        /\ LastUpdate(r, t)
        /\ before[r][t] = fresh[loaded[r][t]]
        /\ before[r][t].black # {}
        /\ before[r][t].white # {}
        /\ ListsOf(r) = before[r][t]

\* C17: after every query of an allowed client, whatever came of handling it,
\* every rule list is checked for staleness and a stale one with no refresh in
\* progress gets a background refresh: when the handler of an allowed client
\* returns, every rule that needs an update has an update thread of that
\* handler.
C17_CheckedAfterEveryQuery ==
    [][\A q \in Requests :
          (rpc[q] # "done" /\ rpc'[q] = "done" /\ Allowed(client'[q]))
              => \A r \in Rules :
                    IsNeedUpdate(r, rule_refresh[r]) => upc'[r][q] # "none"]_vars

\* the handler of request q makes the staleness check of rule r in this step
Checks(q, r) ==
    /\ rpc[q] = "update"
    /\ RuleNames[idx[q]] = r
    /\ idx'[q] # idx[q] \/ rpc'[q] # rpc[q]

\* C18 as the claim has it: for a rule with a local source the staleness check
\* is true exactly when the mtime of the file differs from the time kept at
\* the last load, whatever the refresh interval of the rule.
C18_StaleIffChanged ==
    [][\A q \in Requests, r \in Rules :
          (IsLocal(r) /\ Checks(q, r))
              => (upc'[r][q] = "start" <=> mtime[r] # last_update_time[r])]_vars

\* C18: for a rule with a local source, a refresh interval other than 0 and no
\* refresh in progress, the staleness check is true exactly when the mtime of
\* the file differs from the time kept at the last load (an earlier mtime
\* included); with the interval 0 or during a refresh it is false.
C18_StaleIffChangedUnlessOff ==
    [][\A q \in Requests, r \in Rules :
          (IsLocal(r) /\ Checks(q, r))
              => (upc'[r][q] = "start" <=>
                    (/\ mtime[r] # last_update_time[r]
                     /\ rule_refresh[r] # 0
                     /\ ~updating[r]))]_vars

\* a refresh began for a file whose mtime went back behind the time kept at
\* the last load
C18_Witness ==
    \E q \in Requests, r \in Rules :
        /\ IsLocal(r)
        /\ upc[r][q] = "start"
        /\ last_update_time[r] > 0
        /\ mtime[r] < last_update_time[r]

\* C19: a request whose source address is not in the allow-set is dropped
\* before any processing: nothing of it is read or parsed, no reply is sent,
\* it is put on no queue and no refresh is started on its behalf.
C19_DroppedUnprocessed ==
    \A q \in Requests :
        (client[q] # "" /\ client[q] \notin AllowedHosts)
            => /\ rpc[q] = "done"
               /\ host[q] = ""
               /\ qtype[q] = ""
               /\ searched[q] = <<>>
               /\ verdict[q] = <<>>
               /\ replies[q] = 0
               /\ enq[q] = {}
               /\ \A u \in Upstreams : \A i \in 1..Len(enqueued[u]) : enqueued[u][i] # q
               /\ \A r \in Rules : upc[r][q] = "none"

\* the handler of a client that is not allowed has returned while a rule was
\* stale with no refresh in progress
C19_Witness ==
    \E q \in Requests :
        /\ client[q] # ""
        /\ client[q] \notin AllowedHosts
        /\ rpc[q] = "done"
        /\ \E r \in Rules : IsNeedUpdate(r, rule_refresh[r])

\* C20: an SRV question is rewritten to the apex of a zone only when no
\* configured zone owns its name: an SRV question whose name some zone owns
\* is resolved under its own name by the zone that owns it, whatever the order
\* of the zones.
C20_OwnedSrvKeepsName ==
    \A q \in Requests :
        (/\ qtype[q] = "SRV"
         /\ \E zone \in LocalZones : InDomain(zone, host[q])
         /\ rpc[q] \notin {"idle", "local"})
            => /\ searched[q] # <<>>
               /\ \A i \in 1..Len(searched[q]) :
                     /\ searched[q][i][2] = host[q]
                     /\ InDomain(searched[q][i][1], host[q])

\* the handler of an allowed client that ended before a query was parsed:
\* get_data raised (a wrong frame) or DNSRecord.parse raised
Rejected(q) == rpc[q] # "idle" /\ Allowed(client[q]) /\ host[q] = ""

\* C21, as stated: a request with a wrong frame, a request that does not parse
\* and a request whose handling raised any other exception get no reply
C21_NoReplyOnException ==
    \A q \in Requests : (Rejected(q) \/ raised[q]) => replies[q] = 0

\* C21, amended: a request with a wrong frame or one that does not parse gets
\* no reply, is looked up nowhere and put on no queue; an exception raised
\* later, in the loop that looks for stale rules, is caught too but leaves the
\* reply already sent and the queues as they are; in every case handle()
\* returns and the next request can be handled
C21_CaughtAndServing ==
    \A q \in Requests :
        /\ Rejected(q) =>
              /\ rpc[q] = "done"
              /\ replies[q] = 0 /\ enq[q] = {}
              /\ searched[q] = <<>> /\ verdict[q] = <<>>
        /\ raised[q] => rpc[q] = "done"
        /\ \A p \in Requests :
              (Rejected(q) \/ raised[q]) /\ p = q + 1 /\ rpc[p] = "idle"
                  => ENABLED Handle(p)

\* a request was answered from a zone before the exception, and the request
\* after it was answered too; another run rejects a request
C21_Witness ==
    \E q, p \in Requests :
        /\ q < p
        /\ raised[q] /\ replies[q] = 1
        /\ rpc[p] = "done" /\ replies[p] = 1

\* the name of a request lies in some local zone, as it was asked or after the
\* rewrite of a hacked SRV name
OwnedName(q) ==
    \/ \E z \in LocalZones : InDomain(z, host[q])
    \/ /\ qtype[q] = "SRV"
       /\ Lower(FirstTwoLabels(host[q])) \in HackSrv
       /\ LocalZones # {}

\* a parsed request that is past the local lookup of dns_response
PastLocal(q) == host[q] # "" /\ rpc[q] \notin {"idle", "local"}

\* the request was handed to the rules or put on a queue
AtRules(q) ==
    \/ rpc[q] \in {"white", "black", "dispatch"}
    \/ verdict[q] # <<>>
    \/ overlap[q] # <<>>
    \/ enq[q] # {}

\* C22: a query reaches the rules and the upstream queues only if the local
\* lookup left it unanswered and the policy holds 'upstream'; a query whose
\* name, as asked or rewritten, lies in a local zone gets exactly one reply
\* from the local path, with or without records, and is put on no queue;
\* without 'local' in the policy no zone is searched and nothing is answered
\* from a zone
C22_LocalBeforeUpstream ==
    \A q \in Requests :
        PastLocal(q) =>
            /\ AtRules(q) =>
                  /\ "upstream" \in search
                  /\ searched[q] = <<>>
                  /\ ~("local" \in search /\ OwnedName(q))
            /\ "local" \in search /\ OwnedName(q) =>
                  /\ replies[q] = 1
                  /\ searched[q] # <<>>
                  /\ ~AtRules(q)
            /\ "local" \notin search =>
                  /\ searched[q] = <<>>
                  /\ enq[q] = {} => replies[q] = 0

\* a name without records was answered from its zone, once, and the request
\* after it went to the queues
C22_Witness ==
    \E q, p \in Requests :
        /\ host[q] = "no.lan" /\ rpc[q] = "done"
        /\ replies[q] = 1 /\ enq[q] = {}
        /\ rpc[p] = "done" /\ enq[p] # {}

\* C23: every exchange put on the queue of an upstream is taken from it and
\* completed in the end, whatever the upstream does: the worker of an upstream
\* calls task_done as often as exchanges were put on its queue
C23_EveryExchangeCompleted ==
    \A u \in Upstreams : \A n \in 1..MaxRequests :
        (Len(enqueued[u]) >= n) ~> (finished[u] >= n)

\* C24: handler.send_data is called at most once for every inbound query, the
\* local path and the workers of all upstreams taken together, whatever the
\* size of the pool of the rule that matched
C24_AtMostOneReply == \A q \in Requests : replies[q] <= 1

\* the staleness check of a rule, with the refresh interval of its configuration
Stale(r) == IsNeedUpdate(r, rule_refresh[r])

\* C25: a refresh that completes makes its rule non-stale.  The open of the
\* refresh stores the time of the load (the modification time of a local file,
\* the wall-clock time of a fetch); in the step that ends update() the rule
\* is not updating and the staleness check is false; and a rule that is not
\* stale becomes stale only in a step that changes the modification time of
\* its local file or, for a remote source, moves the clock past the time of
\* the load plus the refresh interval.  No step of a handler makes it stale.
C25_RefreshMakesFresh ==
    /\ [][\A r \in Rules : \A t \in Requests :
             (upc[r][t] = "open" /\ upc'[r][t] = "read")
                 => last_update_time'[r] = IF IsLocal(r) THEN mtime'[r] ELSE now']_vars
    /\ [][\A r \in Rules : \A t \in Requests :
             (upc[r][t] = "read" /\ upc'[r][t] = "done")
                 => ~updating'[r] /\ ~Stale(r)']_vars
    /\ [][\A r \in Rules :
             (~Stale(r) /\ Stale(r)')
                 => IF IsLocal(r)
                    THEN mtime'[r] # mtime[r]
                    ELSE now' > now /\ now' > last_update_time[r] + rule_refresh[r]]_vars

\* two requests after a refresh of the local rule and of the remote rule: the
\* first request started both refreshes, they completed, and the handler of
\* the next request looked at both rules and started none
C25_Witness ==
    \E q, p \in Requests :
        /\ q < p
        /\ \A r \in Rules : upc[r][q] = "done" /\ upc[r][p] = "none"
        /\ rpc[p] = "done" /\ host[p] # ""

====
